---- MODULE Spec2Model ----
(***************************************************************************)
(* frontblok-crud: the Client Registry (api.ts), the fetch hooks           *)
(* useEntityList / useEntity, the mutation hook useMutation and the        *)
(* composite useEntityForm (hooks.ts), over an opaque request-executor.    *)
(*                                                                         *)
(* One component is mounted; `kind` says which hook it uses.  Every call   *)
(* of fetchData / create / update / remove is logged in `calls` in issue   *)
(* order, with the props it was issued under, the executor's answer and    *)
(* the outcome of the promise handed back to the caller.                   *)
(*                                                                         *)
(* The Entity Client's five operations (api.ts) and the naming functions   *)
(* toPlural / pluralize work on strings, modelled as sequences of          *)
(* characters; `sent` and `naming` hold one application of them.           *)
(***************************************************************************)
EXTENDS Integers, Sequences, FiniteSets, TLC

\* ------------------------------------------------------------------ bounds
MaxCalls == 3
MaxOps == 3
\* longest word handed to the naming functions / longest entity name handed
\* to the Entity Client
MaxLen == 3
MaxNameLen == 2

\* ------------------------------------------------------------------ values
UNDEFINED == "<undefined>"
NULL == "<null>"
EMPTYLIST == "[]"

Kinds == {"list", "entity", "mutation", "form"}
Names == {"tasks", "users"}
Ids == {UNDEFINED, "", "a", "b"}
\* the ids a component of kind k is rendered with
IdsOf(k) ==
  IF k = "entity" THEN Ids ELSE IF k = "form" THEN {UNDEFINED, "", "a"} ELSE {UNDEFINED}
Inputs == {"p1"}
Transports == {"t1", "t2"}

\* query options of useEntityList: absent, or a list of key/value entries
NoOptions == [present |-> FALSE, entries |-> << >>]
Options ==
  { NoOptions,
    [present |-> TRUE, entries |-> << [k |-> "limit", v |-> "10"] >>],
    [present |-> TRUE, entries |-> << [k |-> "limit", v |-> "10"],
                                      [k |-> "status", v |-> UNDEFINED] >>] }

\* the props a component of kind k is rendered with: every id and every
\* options value under the first entity name, and one render under another
\* name for the two fetch hooks
PropsOf(k) ==
  { p \in Names \X IdsOf(k) \X Options :
      /\ k # "list" => p[3] = NoOptions
      /\ p[1] # "tasks" => \/ k = "list" /\ p[3] = NoOptions
                           \/ k = "entity" /\ p[2] = "a" }

\* thrown / rejected values: Error objects and other values
NoError == [tag |-> "null", message |-> ""]
ErrorObj(m) == [tag |-> "Error", message |-> m]
NotInitializedError == ErrorObj("API not initialized")
InvalidOperationError == ErrorObj("Cannot delete: no entity ID provided")
RejectValues == { ErrorObj("HTTP 500"), [tag |-> "value", message |-> "boom"] }

VARIABLES
  apiInstance,    \* api.ts: the module-level singleton slot (NoClient or a client)
  regOps,         \* log of the registry operations an application performed
  kind,           \* which hook the mounted component uses
  entityName, id, options,      \* the props of the latest render
  boundOptions,   \* the options captured by the memoised fetchData of useEntityList
  effectPending,  \* the useEffect of the latest render has not run yet
  alive,          \* the component has not been unmounted
  isMounted,      \* isMounted.current
  items, item, loading, error,  \* state cells of useEntityList / useEntity
  data, saving, mutationError,  \* state cells of useMutation
  calls,          \* log of hook calls, in issue order
  naming,         \* one application of a naming function: input and output
  sent            \* one Entity Client operation: arguments and executor call

regVars == <<apiInstance, regOps>>
propVars == <<kind, entityName, id, options, boundOptions>>
lifeVars == <<effectPending, alive, isMounted>>
fetchVars == <<items, item, loading, error>>
mutVars == <<data, saving, mutationError>>
pureVars == <<naming, sent>>
vars == <<regVars, propVars, lifeVars, fetchVars, mutVars, calls, pureVars>>

\* ---------------------------------------------------------------- helpers
\* JS truthiness of an optional string id
Falsy(i) == i = UNDEFINED \/ i = ""

\* err instanceof Error ? err : new Error(String(err))
KeepRejectedValue(e) == e
Normalize(e) == IF e.tag = "Error" THEN e ELSE ErrorObj(e.message)

RECURSIVE DefinedEntries(_)
DefinedEntries(es) ==
  IF es = << >> THEN << >>
  ELSE IF Head(es).v = UNDEFINED THEN DefinedEntries(Tail(es))
       ELSE <<Head(es)>> \o DefinedEntries(Tail(es))

\* JSON.stringify(options): undefined for absent options, undefined-valued
\* properties are dropped
JsonStringify(o) ==
  IF o.present THEN [present |-> TRUE, entries |-> DefinedEntries(o.entries)]
  ELSE NoOptions

\* ---------------------------------------------------------------- registry
\* a UniversalApi is the request-executor it wraps
NoClient == [authApi |-> NULL]
UniversalApi(a) == [authApi |-> a]

\* getApi(): the stored client, or throws
getApi(inst) ==
  IF inst = NoClient THEN [ok |-> FALSE, client |-> NoClient, err |-> NotInitializedError]
  ELSE [ok |-> TRUE, client |-> inst, err |-> NoError]

isApiInitialized(inst) == inst # NoClient

\* initApi(authApi): apiInstance = new UniversalApi(authApi)
StoreFirstOnly(slot, a) == IF slot = NoClient THEN UniversalApi(a) ELSE slot
initApi(slot, a) == UniversalApi(a)

\* resetApi(): apiInstance = null
resetApi(slot) == NoClient

\* application wiring, seen by the hooks: initApi / resetApi at any time
InitApi(a) ==
  /\ apiInstance' = initApi(apiInstance, a)
  /\ UNCHANGED <<regOps, propVars, lifeVars, fetchVars, mutVars, calls, pureVars>>

ResetApi ==
  /\ apiInstance' = resetApi(apiInstance)
  /\ UNCHANGED <<regOps, propVars, lifeVars, fetchVars, mutVars, calls, pureVars>>

\* the registry on its own: every operation and what it returned, logged
RegOp(op, a, res) == [op |-> op, authApi |-> a, res |-> res]
hookVars == <<propVars, lifeVars, fetchVars, mutVars, calls>>

RegInitApi(a) ==
  /\ Len(regOps) < MaxOps
  /\ apiInstance' = initApi(apiInstance, a)
  /\ regOps' = Append(regOps, RegOp("init", a, [ok |-> TRUE, client |-> apiInstance', err |-> NoError]))
  /\ UNCHANGED <<hookVars, pureVars>>

RegResetApi ==
  /\ Len(regOps) < MaxOps
  /\ apiInstance' = resetApi(apiInstance)
  /\ regOps' = Append(regOps, RegOp("reset", NULL, [ok |-> TRUE, client |-> NoClient, err |-> NoError]))
  /\ UNCHANGED <<hookVars, pureVars>>

RegGetApi ==
  /\ Len(regOps) < MaxOps
  /\ regOps' = Append(regOps, RegOp("get", NULL, getApi(apiInstance)))
  /\ UNCHANGED <<apiInstance, hookVars, pureVars>>

RegIsApiInitialized ==
  /\ Len(regOps) < MaxOps
  /\ regOps' = Append(regOps, RegOp("isInitialized", NULL,
                 [ok |-> isApiInitialized(apiInstance), client |-> NoClient, err |-> NoError]))
  /\ UNCHANGED <<apiInstance, hookVars, pureVars>>

\* ---------------------------------------------------------------- call log
\* fn      : fetchList | fetchEntity | create | update | remove | reset | formRemove
\* via     : effect | refetch | direct | save | formRemove
\* api     : "none" (getApi not reached), "threw" (NotInitialized), "ok"
\* resp    : executor's answer: none | pending | ok | fail, with respValue / respErr
\* status  : promise returned to the caller: pending | fulfilled | rejected
\* entityName / id / options: what the call handed to the Entity Client
\* attempts: how often the Entity Client called the executor for this call
\* alone   : the request is pending and, since the call was issued, it has been
\*           the only call of its state machine that was pending or issued
Call(fn, via, api, i, o, arg) ==
  [ fn |-> fn, via |-> via, entityName |-> entityName, id |-> i,
    options |-> o, arg |-> arg, api |-> api,
    resp |-> IF api = "ok" THEN "pending" ELSE "none",
    respValue |-> UNDEFINED, respErr |-> NoError,
    status |-> IF api = "ok" THEN "pending" ELSE "fulfilled",
    ret |-> UNDEFINED, thrown |-> NoError,
    attempts |-> IF api = "ok" THEN 1 ELSE 0, alone |-> TRUE ]

Room == Len(calls) < MaxCalls

IsFetch(c) == c.fn \in {"fetchList", "fetchEntity"}
IsMutation(c) == c.fn \in {"create", "update", "remove"}

\* two calls of the same state machine (a form has a fetch and a mutation one)
SameMachine(a, b) == (IsFetch(a) /\ IsFetch(b)) \/ (IsMutation(a) /\ IsMutation(b))

\* the log with call c issued
Log(c) ==
  LET busy == \E j \in 1..Len(calls) : calls[j].resp = "pending" /\ SameMachine(calls[j], c)
      seen == [j \in 1..Len(calls) |->
                 IF calls[j].resp = "pending" /\ SameMachine(calls[j], c)
                 THEN [calls[j] EXCEPT !.alone = FALSE] ELSE calls[j]]
  IN Append(seen, [c EXCEPT !.alone = (c.resp = "pending" /\ ~busy)])

\* `if (isMounted.current) set(next)`
UnguardedSet(m, next, cur) == next
GuardedSet(m, next, cur) == IF m THEN next ELSE cur

\* ------------------------------------------------------------- fetch hooks
FetchKinds == {"list", "entity", "form"}

FetchCells == [items |-> items, item |-> item, loading |-> loading, error |-> error]

SetFetchCells(s) ==
  /\ items' = s.items
  /\ item' = s.item
  /\ loading' = s.loading
  /\ error' = s.error

\* setLoading(true); setError(null)
FetchStarted(s) == [s EXCEPT !.loading = TRUE, !.error = NoError]

\* useEntityList.fetchData: try / catch / finally around the awaited getAll
ListSucceeded(m, s, v) ==
  [s EXCEPT !.items = GuardedSet(m, v, @), !.loading = GuardedSet(m, FALSE, @)]

ListFailed(m, s, e) ==
  [s EXCEPT !.error = GuardedSet(m, Normalize(e), @),
            !.loading = GuardedSet(m, FALSE, @)]

\* useEntity.fetchData: `if (!id)`
NeverSkip(i) == FALSE
SkipFetch(i) == Falsy(i)

\* useEntity.fetchData with no id: setItem(null); setLoading(false); return
EntitySkipped(s) == [s EXCEPT !.item = NULL, !.loading = FALSE]

EntitySucceeded(m, s, v) ==
  [s EXCEPT !.item = GuardedSet(m, v, @), !.loading = GuardedSet(m, FALSE, @)]

EntityFailed(m, s, e) ==
  [s EXCEPT !.error = GuardedSet(m, Normalize(e), @),
            !.item = GuardedSet(m, NULL, @),
            !.loading = GuardedSet(m, FALSE, @)]

\* one call of fetchData, m = isMounted.current while it runs.  getApi() is
\* evaluated inside the try block: when it throws, catch and finally run
\* before fetchData returns and no request is issued.
fetchDataList(via, m) ==
  LET r == getApi(apiInstance) IN
  IF r.ok
  THEN /\ SetFetchCells(FetchStarted(FetchCells))
       /\ calls' = Log(Call("fetchList", via, "ok", UNDEFINED, boundOptions, UNDEFINED))
  ELSE /\ SetFetchCells(ListFailed(m, FetchStarted(FetchCells), r.err))
       /\ calls' = Log(Call("fetchList", via, "threw", UNDEFINED, boundOptions, UNDEFINED))

fetchDataEntity(via, m) ==
  LET r == getApi(apiInstance) IN
  IF SkipFetch(id)
  THEN /\ SetFetchCells(EntitySkipped(FetchCells))
       /\ calls' = Log(Call("fetchEntity", via, "none", id, NoOptions, UNDEFINED))
  ELSE IF r.ok
  THEN /\ SetFetchCells(FetchStarted(FetchCells))
       /\ calls' = Log(Call("fetchEntity", via, "ok", id, NoOptions, UNDEFINED))
  ELSE /\ SetFetchCells(EntityFailed(m, FetchStarted(FetchCells), r.err))
       /\ calls' = Log(Call("fetchEntity", via, "threw", id, NoOptions, UNDEFINED))

fetchData(via, m) ==
  IF kind = "list" THEN fetchDataList(via, m) ELSE fetchDataEntity(via, m)

\* useEffect(() => { isMounted.current = true; fetchData(); ... }, [fetchData]);
\* on a change of fetchData the previous cleanup (isMounted.current = false)
\* runs in the same flush, right before the new effect body.
RunEffect ==
  /\ alive /\ effectPending /\ kind \in FetchKinds
  /\ Room
  /\ isMounted' = TRUE
  /\ effectPending' = FALSE
  /\ fetchData("effect", TRUE)
  /\ UNCHANGED <<regVars, propVars, alive, mutVars, pureVars>>

\* the hooks that hand refetch to their caller: useEntityForm takes only
\* item / loading / error from useEntity and returns no refetch
RefetchKinds == {"list", "entity"}

\* refetch: the fetchData of the latest render, called by the component's
\* user; pending effects are flushed before an event handler runs
Refetch ==
  /\ alive /\ ~effectPending /\ kind \in RefetchKinds
  /\ Room
  /\ fetchData("refetch", isMounted)
  /\ UNCHANGED <<regVars, propVars, lifeVars, mutVars, pureVars>>

\* the dependency list of fetchData: [entityName, JSON.stringify(options)]
\* for useEntityList, [entityName, id] for useEntity
DepsChanged(n, i, o) ==
  IF kind = "list"
  THEN n # entityName \/ JsonStringify(o) # JsonStringify(boundOptions)
  ELSE n # entityName \/ i # id

\* a render with new props; pending effects are flushed before the next render
Rerender(n, i, o) ==
  /\ alive /\ ~effectPending
  /\ Room
  /\ <<n, i, o>> # <<entityName, id, options>>
  /\ <<n, i, o>> \in PropsOf(kind)
  /\ kind # "mutation"
  /\ entityName' = n /\ id' = i /\ options' = o
  /\ boundOptions' = IF kind = "list" /\ DepsChanged(n, i, o) THEN o ELSE boundOptions
  /\ effectPending' = (kind \in FetchKinds /\ DepsChanged(n, i, o))
  /\ UNCHANGED <<regVars, kind, alive, isMounted, fetchVars, mutVars, calls, pureVars>>

\* teardown: the effect cleanup sets isMounted.current = false
Unmount ==
  /\ alive /\ ~effectPending
  /\ alive' = FALSE
  /\ isMounted' = IF kind \in FetchKinds THEN FALSE ELSE isMounted
  /\ UNCHANGED <<regVars, propVars, effectPending, fetchVars, mutVars, calls, pureVars>>

\* ----------------------------------------------------------- mutation hook
MutKinds == {"mutation", "form"}

MutCells == [data |-> data, saving |-> saving, mutationError |-> mutationError]

SetMutCells(s) ==
  /\ data' = s.data
  /\ saving' = s.saving
  /\ mutationError' = s.mutationError

\* setLoading(true); setError(null)
MutStartedKeepError(s) == [s EXCEPT !.saving = TRUE]
MutStarted(s) == [s EXCEPT !.saving = TRUE, !.mutationError = NoError]

\* try: setData(result) (setData(null) for remove); finally: setLoading(false)
MutSucceededNoFinally(s, fn, v) == [s EXCEPT !.data = IF fn = "remove" THEN NULL ELSE v]
MutSucceeded(s, fn, v) ==
  [s EXCEPT !.data = IF fn = "remove" THEN NULL ELSE v, !.saving = FALSE]

\* catch: setError(error); finally: setLoading(false)
MutFailed(s, e) == [s EXCEPT !.mutationError = Normalize(e), !.saving = FALSE]

\* the caller's promise: `return result` / `throw error`
Returned(c, v) ==
  [c EXCEPT !.status = "fulfilled", !.ret = IF c.fn = "remove" THEN UNDEFINED ELSE v]

Swallowed(c, e) == [c EXCEPT !.status = "fulfilled"]
Thrown(c, e) == [c EXCEPT !.status = "rejected", !.thrown = Normalize(e)]

\* one call of mutate.create / update / remove; getApi() throwing inside the
\* try block runs catch and finally before the call returns
mutateCoalesced(fn, via, i, input) ==
  LET r == getApi(apiInstance)
      c == Call(fn, via, IF r.ok THEN "ok" ELSE "threw", i, NoOptions, input)
  IN
  IF saving
  THEN /\ UNCHANGED mutVars
       /\ calls' = Log(Call(fn, via, "none", i, NoOptions, input))
  ELSE IF r.ok
  THEN /\ SetMutCells(MutStarted(MutCells))
       /\ calls' = Log(c)
  ELSE /\ SetMutCells(MutFailed(MutStarted(MutCells), r.err))
       /\ calls' = Log(Thrown(c, r.err))
mutate(fn, via, i, input) ==
  LET r == getApi(apiInstance)
      c == Call(fn, via, IF r.ok THEN "ok" ELSE "threw", i, NoOptions, input)
  IN
  IF r.ok
  THEN /\ SetMutCells(MutStarted(MutCells))
       /\ calls' = Log(c)
  ELSE /\ SetMutCells(MutFailed(MutStarted(MutCells), r.err))
       /\ calls' = Log(Thrown(c, r.err))

Create(input) ==
  /\ alive /\ kind = "mutation" /\ Room
  /\ mutate("create", "direct", UNDEFINED, input)
  /\ UNCHANGED <<regVars, propVars, lifeVars, fetchVars, pureVars>>

\* the id handed to a direct mutate.update / mutate.remove
TargetIds == {"a"}

Update(i, input) ==
  /\ alive /\ kind = "mutation" /\ Room
  /\ mutate("update", "direct", i, input)
  /\ UNCHANGED <<regVars, propVars, lifeVars, fetchVars, pureVars>>

Remove(i) ==
  /\ alive /\ kind = "mutation" /\ Room
  /\ mutate("remove", "direct", i, UNDEFINED)
  /\ UNCHANGED <<regVars, propVars, lifeVars, fetchVars, pureVars>>

\* useMutation.reset: setData(null); setError(null); setLoading(false)
MutResetKeepLoading(s) == [s EXCEPT !.data = NULL, !.mutationError = NoError]
MutReset(s) == [data |-> NULL, saving |-> FALSE, mutationError |-> NoError]

Reset ==
  /\ alive /\ kind = "mutation" /\ Room
  /\ SetMutCells(MutReset(MutCells))
  /\ calls' = Log(Call("reset", "direct", "none", UNDEFINED, NoOptions, UNDEFINED))
  /\ UNCHANGED <<regVars, propVars, lifeVars, fetchVars, pureVars>>

\* --------------------------------------------------------------- form hook
\* the values the form derives at every render:
\* Boolean(id), loadingEntity || saving, loadError || mutationError
isEdit == ~Falsy(id)
formLoading == loading \/ saving
MutationErrorFirst == IF mutationError # NoError THEN mutationError ELSE error
formError == IF error # NoError THEN error ELSE mutationError

\* useEntityForm.save: `if (isEdit && id)`
AlwaysCreate(edit, i) == "create"
SaveVerb(edit, i) == IF edit /\ ~Falsy(i) THEN "update" ELSE "create"

\* useEntityForm.remove: `if (!isEdit || !id)`
NeverRefuse(edit, i) == FALSE
RemoveRefused(edit, i) == ~edit \/ Falsy(i)

Save(input) ==
  /\ alive /\ ~effectPending /\ kind = "form"
  /\ Room
  /\ IF SaveVerb(isEdit, id) = "update"
     THEN mutate("update", "save", id, input)
     ELSE mutate("create", "save", UNDEFINED, input)
  /\ UNCHANGED <<regVars, propVars, lifeVars, fetchVars, pureVars>>

FormRemove ==
  /\ alive /\ ~effectPending /\ kind = "form"
  /\ Room
  /\ IF RemoveRefused(isEdit, id)
     THEN /\ calls' = Log(
               [Call("formRemove", "formRemove", "none", id, NoOptions, UNDEFINED)
                  EXCEPT !.status = "rejected", !.thrown = InvalidOperationError])
          /\ UNCHANGED mutVars
     ELSE mutate("remove", "formRemove", id, UNDEFINED)
  /\ UNCHANGED <<regVars, propVars, lifeVars, fetchVars, pureVars>>

\* ---------------------------------------------------------------- executor
\* the record (or list of records) the server answers request k with
RecordOf(k) == "r" \o ToString(k)

\* the executor the hooks' client wraps
HookTransports == {"t1"}

\* call c once its single request was answered with value v
Resolved(c, v) == [c EXCEPT !.resp = "ok", !.respValue = v, !.alone = FALSE]

\* call c once its single request was refused with value e: the Entity Client
\* awaits the executor once and lets the rejection through
RetriedOnce(c, e) ==
  IF c.attempts < 2 THEN [c EXCEPT !.attempts = 2, !.alone = FALSE]
  ELSE [c EXCEPT !.resp = "fail", !.respErr = e, !.alone = FALSE]
Rejected(c, e) == [c EXCEPT !.resp = "fail", !.respErr = e, !.alone = FALSE]

\* the request-executor resolves the request of call k with value v
Resolve(k, v) ==
  /\ k \in 1..Len(calls)
  /\ calls[k].resp = "pending"
  /\ LET c == Resolved(calls[k], v) IN
       calls' = [calls EXCEPT ![k] = Returned(c, IF IsFetch(c) THEN UNDEFINED ELSE v)]
  /\ IF calls[k].fn = "fetchList"
     THEN SetFetchCells(ListSucceeded(isMounted, FetchCells, v)) /\ UNCHANGED mutVars
     ELSE IF calls[k].fn = "fetchEntity"
     THEN SetFetchCells(EntitySucceeded(isMounted, FetchCells, v)) /\ UNCHANGED mutVars
     ELSE SetMutCells(MutSucceeded(MutCells, calls[k].fn, v)) /\ UNCHANGED fetchVars
  /\ UNCHANGED <<regVars, propVars, lifeVars, pureVars>>

\* the request-executor rejects the request of call k with value e
Reject(k, e) ==
  /\ k \in 1..Len(calls)
  /\ calls[k].resp = "pending"
  /\ LET c == Rejected(calls[k], e) IN
       calls' = [calls EXCEPT ![k] = IF IsFetch(c) THEN Returned(c, UNDEFINED)
                                      ELSE Thrown(c, e)]
  /\ IF calls[k].fn = "fetchList"
     THEN SetFetchCells(ListFailed(isMounted, FetchCells, e)) /\ UNCHANGED mutVars
     ELSE IF calls[k].fn = "fetchEntity"
     THEN SetFetchCells(EntityFailed(isMounted, FetchCells, e)) /\ UNCHANGED mutVars
     ELSE SetMutCells(MutFailed(MutCells, e)) /\ UNCHANGED fetchVars
  /\ UNCHANGED <<regVars, propVars, lifeVars, pureVars>>

\* ----------------------------------------------------------------- strings
\* a string is the sequence of its characters
Chars == {"s", "S", "y", "Y", "a", "e", "i", "o", "t", "c", "h", "x", "X", "z"}
Words == UNION { [1..n -> Chars] : n \in 0..MaxLen }

Max(a, b) == IF a > b THEN a ELSE b
Min(a, b) == IF a < b THEN a ELSE b

\* String.prototype.toLowerCase, character by character
LowerChar(ch) ==
  CASE ch = "S" -> "s" [] ch = "Y" -> "y" [] ch = "X" -> "x" [] OTHER -> ch
toLowerCase(w) == [i \in 1..Len(w) |-> LowerChar(w[i])]

\* String.prototype.endsWith
endsWith(w, e) == Len(e) <= Len(w) /\ SubSeq(w, Len(w) - Len(e) + 1, Len(w)) = e

\* String.prototype.slice(a, b): negative indexes count from the end
sliceIndex(w, a) == IF a < 0 THEN Max(Len(w) + a, 0) ELSE Min(a, Len(w))
slice(w, a, b) ==
  IF sliceIndex(w, a) >= sliceIndex(w, b) THEN << >>
  ELSE SubSeq(w, sliceIndex(w, a) + 1, sliceIndex(w, b))
\* String.prototype.slice(a)
sliceFrom(w, a) == slice(w, a, Len(w))

\* String.prototype.includes
includes(w, part) ==
  \/ part = << >>
  \/ \E i \in 1..(Len(w) - Len(part) + 1) : SubSeq(w, i, i + Len(part) - 1) = part

\* ------------------------------------------------------------------ naming
AEIOU == <<"a", "e", "i", "o", "u">>
esEndings == << <<"c", "h">>, <<"s", "h">>, <<"x">>, <<"z">>, <<"o">> >>

\* index.ts toSingular
singularEsEndings == << <<"c", "h">>, <<"s", "h">>, <<"s", "s">>, <<"x">>, <<"z">>, <<"o">> >>
toSingular(str) ==
  IF endsWith(str, <<"i", "e", "s">>) /\ Len(str) > 3
  THEN slice(str, 0, -3) \o <<"y">>
  ELSE IF endsWith(str, <<"e", "s">>) /\ Len(str) > 2
  THEN LET withoutEs == slice(str, 0, -2) IN
       IF \E n \in 1..Len(singularEsEndings) : endsWith(withoutEs, singularEsEndings[n])
       THEN withoutEs
       ELSE slice(str, 0, -1)
  ELSE IF endsWith(str, <<"s">>) /\ Len(str) > 1
  THEN slice(str, 0, -1)
  ELSE str

\* index.ts toPlural
toPluralNoGuard(str) ==
  IF str = << >> THEN str
  ELSE IF Len(str) > 1 /\ toLowerCase(sliceFrom(str, -1)) = <<"y">>
          /\ ~includes(AEIOU, toLowerCase(slice(str, -2, -1)))
       THEN slice(str, 0, -1) \o <<"i", "e", "s">>
  ELSE IF \E n \in 1..Len(esEndings) : endsWith(toLowerCase(str), esEndings[n])
       THEN str \o <<"e", "s">>
  ELSE str \o <<"s">>
toPlural(str) ==
  IF str = << >> THEN str
  ELSE IF endsWith(toLowerCase(str), <<"s">>) THEN str
  ELSE IF Len(str) > 1 /\ toLowerCase(sliceFrom(str, -1)) = <<"y">>
          /\ ~includes(AEIOU, toLowerCase(slice(str, -2, -1)))
       THEN slice(str, 0, -1) \o <<"i", "e", "s">>
  ELSE IF \E n \in 1..Len(esEndings) : endsWith(toLowerCase(str), esEndings[n])
       THEN str \o <<"e", "s">>
  ELSE str \o <<"s">>

\* api.ts UniversalApi.pluralize (private; has its own list of endings)
clientEsEndings == << <<"c", "h">>, <<"s", "h">>, <<"x">>, <<"z">>, <<"o">> >>
pluralizeCaseSensitive(word) ==
  IF word = << >> THEN word
  ELSE IF endsWith(toLowerCase(word), <<"s">>) THEN word
  ELSE IF Len(word) > 1 /\ toLowerCase(sliceFrom(word, -1)) = <<"y">>
          /\ ~includes(AEIOU, toLowerCase(slice(word, -2, -1)))
       THEN slice(word, 0, -1) \o <<"i", "e", "s">>
  ELSE IF \E n \in 1..Len(clientEsEndings) : endsWith(word, clientEsEndings[n])
       THEN word \o <<"e", "s">>
  ELSE word \o <<"s">>
pluralize(word) ==
  IF word = << >> THEN word
  ELSE IF endsWith(toLowerCase(word), <<"s">>) THEN word
  ELSE IF Len(word) > 1 /\ toLowerCase(sliceFrom(word, -1)) = <<"y">>
          /\ ~includes(AEIOU, toLowerCase(slice(word, -2, -1)))
       THEN slice(word, 0, -1) \o <<"i", "e", "s">>
  ELSE IF \E n \in 1..Len(clientEsEndings) :
            endsWith(toLowerCase(word), clientEsEndings[n])
       THEN word \o <<"e", "s">>
  ELSE word \o <<"s">>

NoNaming == [fn |-> "none", input |-> << >>, output |-> << >>]

\* one call of toPlural
ToPlural ==
  /\ naming.fn = "none"
  /\ naming' = [naming EXCEPT !.fn = "toPlural", !.output = toPlural(naming.input)]
  /\ UNCHANGED <<regVars, hookVars, sent>>

\* toSingular called on the result of toPlural
ToSingular ==
  /\ naming.fn = "toPlural"
  /\ naming' = [naming EXCEPT !.fn = "toSingular", !.output = toSingular(naming.output)]
  /\ UNCHANGED <<regVars, hookVars, sent>>

\* one call of the Entity Client's pluralize
Pluralize ==
  /\ naming.fn = "none"
  /\ naming' = [naming EXCEPT !.fn = "pluralize", !.output = pluralize(naming.input)]
  /\ UNCHANGED <<regVars, hookVars, sent>>

\* ----------------------------------------------------------- Entity Client
\* values of query options
Undef == [t |-> "undefined", n |-> 0, s |-> << >>]
Null == [t |-> "null", n |-> 0, s |-> << >>]
Num(n) == [t |-> "number", n |-> n, s |-> << >>]
Text(s) == [t |-> "string", n |-> 0, s |-> s]
Bool(b) == [t |-> "boolean", n |-> IF b THEN 1 ELSE 0, s |-> << >>]

DigitChars == <<"0", "1", "2", "3", "4", "5", "6", "7", "8", "9">>
RECURSIVE Digits(_)
Digits(n) ==
  IF n < 10 THEN <<DigitChars[n + 1]>>
  ELSE Digits(n \div 10) \o <<DigitChars[(n % 10) + 1]>>

\* String(value) of a value that is neither undefined nor null
String(v) ==
  CASE v.t = "number" -> Digits(v.n)
    [] v.t = "boolean" -> IF v.n = 1 THEN <<"t", "r", "u", "e">>
                          ELSE <<"f", "a", "l", "s", "e">>
    [] OTHER -> v.s

\* the options handed to getAll: absent, or key/value entries in insertion order
NoClientOptions == [present |-> FALSE, entries |-> << >>]
Obj(es) == [present |-> TRUE, entries |-> es]
LIMIT == <<"l", "i", "m", "i", "t">>
SKIP == <<"s", "k", "i", "p">>
STATUS == <<"s", "t", "a", "t", "u", "s">>
ClientOptions ==
  { NoClientOptions,
    Obj(<< >>),
    Obj(<< [k |-> LIMIT, v |-> Num(10)] >>),
    Obj(<< [k |-> SKIP, v |-> Num(0)], [k |-> LIMIT, v |-> Num(10)] >>),
    Obj(<< [k |-> STATUS, v |-> Undef], [k |-> LIMIT, v |-> Num(10)] >>),
    Obj(<< [k |-> STATUS, v |-> Null] >>),
    Obj(<< [k |-> STATUS, v |-> Undef] >>),
    Obj(<< [k |-> STATUS, v |-> Text(<<"a", " ", "b">>)] >>),
    Obj(<< [k |-> STATUS, v |-> Bool(FALSE)], [k |-> SKIP, v |-> Num(205)] >>) }

ClientNames == UNION { [1..n -> Chars] : n \in 0..MaxNameLen }
ClientIds == { <<"4", "2">>, <<"a">> }

\* getAll: `if (value !== undefined && value !== null) params.append(key, String(value))`
RECURSIVE AppendParamsKeepNull(_)
AppendParamsKeepNull(es) ==
  IF es = << >> THEN << >>
  ELSE IF Head(es).v.t = "undefined" THEN AppendParamsKeepNull(Tail(es))
       ELSE << [k |-> Head(es).k, v |-> String(Head(es).v)] >>
            \o AppendParamsKeepNull(Tail(es))
RECURSIVE AppendParams(_)
AppendParams(es) ==
  IF es = << >> THEN << >>
  ELSE IF Head(es).v.t \in {"undefined", "null"} THEN AppendParams(Tail(es))
       ELSE << [k |-> Head(es).k, v |-> String(Head(es).v)] >> \o AppendParams(Tail(es))

\* URLSearchParams.toString: form-urlencoded pairs joined with "&"; letters
\* and digits stand for themselves
EncodeChar(ch) ==
  CASE ch = " " -> <<"+">>
    [] ch = "&" -> <<"%", "2", "6">>
    [] ch = "=" -> <<"%", "3", "D">>
    [] OTHER -> <<ch>>
RECURSIVE Encode(_)
Encode(w) == IF w = << >> THEN << >> ELSE EncodeChar(Head(w)) \o Encode(Tail(w))
RECURSIVE ParamsToString(_)
ParamsToString(ps) ==
  IF ps = << >> THEN << >>
  ELSE Encode(Head(ps).k) \o <<"=">> \o Encode(Head(ps).v)
       \o (IF Tail(ps) = << >> THEN << >> ELSE <<"&">> \o ParamsToString(Tail(ps)))

\* the RequestInit handed to the executor, and JSON.stringify(data)
NoBody == [present |-> FALSE, json |-> UNDEFINED]
JsonBody(d) == [present |-> TRUE, json |-> d]
NoRequestInit == [method |-> UNDEFINED, body |-> NoBody]

\* authApi.request(endpoint, init): the executor call as the executor sees it;
\* a RequestInit without a method is a GET
request(endpoint, init) ==
  [endpoint |-> endpoint,
   method |-> IF init.method = UNDEFINED THEN "GET" ELSE init.method,
   body |-> init.body]

API == <<"/", "a", "p", "i", "/">>
SLASH == <<"/">>

getAll(name, o) ==
  LET queryString == IF o.present THEN ParamsToString(AppendParams(o.entries)) ELSE << >>
      query == IF queryString # << >> THEN <<"?">> \o queryString ELSE << >>
  IN << request(API \o pluralize(name) \o SLASH \o query, NoRequestInit) >>

getOne(name, i) == << request(API \o pluralize(name) \o SLASH \o i, NoRequestInit) >>

create(name, d) ==
  << request(API \o pluralize(name) \o SLASH, [method |-> "POST", body |-> JsonBody(d)]) >>

updateWithPut(name, i, d) ==
  << request(API \o pluralize(name) \o SLASH \o i, [method |-> "PUT", body |-> JsonBody(d)]) >>
update(name, i, d) ==
  << request(API \o pluralize(name) \o SLASH \o i, [method |-> "PATCH", body |-> JsonBody(d)]) >>

remove(name, i) ==
  << request(API \o pluralize(name) \o SLASH \o i, [method |-> "DELETE", body |-> NoBody]) >>

NoSent ==
  [op |-> "none", entityName |-> << >>, id |-> <<"a">>, options |-> NoClientOptions,
   data |-> "p1", requests |-> << >>]

\* one operation of the Entity Client on the arguments held in `sent`
Done(op, reqs) == [sent EXCEPT !.op = op, !.requests = reqs]

ClientGetAll ==
  /\ sent.op = "none"
  /\ sent' = Done("getAll", getAll(sent.entityName, sent.options))
  /\ UNCHANGED <<regVars, hookVars, naming>>

ClientGetOne ==
  /\ sent.op = "none"
  /\ sent' = Done("getOne", getOne(sent.entityName, sent.id))
  /\ UNCHANGED <<regVars, hookVars, naming>>

ClientCreate ==
  /\ sent.op = "none"
  /\ sent' = Done("create", create(sent.entityName, sent.data))
  /\ UNCHANGED <<regVars, hookVars, naming>>

ClientUpdate ==
  /\ sent.op = "none"
  /\ sent' = Done("update", update(sent.entityName, sent.id, sent.data))
  /\ UNCHANGED <<regVars, hookVars, naming>>

ClientRemove ==
  /\ sent.op = "none"
  /\ sent' = Done("remove", remove(sent.entityName, sent.id))
  /\ UNCHANGED <<regVars, hookVars, naming>>

\* ------------------------------------------------------------ specification
\* the state after the first render: useState / useRef initial values, the
\* mount effect not yet run, the registry empty
HooksInit ==
  /\ apiInstance = NoClient
  /\ regOps = << >>
  /\ kind \in Kinds
  /\ \E p \in PropsOf(kind) :
       p[1] = "tasks" /\ entityName = p[1] /\ id = p[2] /\ options = p[3]
  /\ boundOptions = options
  /\ effectPending = (kind \in FetchKinds)
  /\ alive = TRUE
  /\ isMounted = TRUE
  /\ items = EMPTYLIST
  /\ item = NULL
  /\ loading = (IF kind = "list" THEN TRUE ELSE IF kind = "mutation" THEN FALSE ELSE ~Falsy(id))
  /\ error = NoError
  /\ data = NULL
  /\ saving = FALSE
  /\ mutationError = NoError
  /\ calls = << >>

Init == HooksInit /\ naming = NoNaming /\ sent = NoSent

Next ==
  \/ \E a \in HookTransports : InitApi(a)
  \/ ResetApi
  \/ RunEffect
  \/ Refetch
  \/ \E p \in PropsOf(kind) : Rerender(p[1], p[2], p[3])
  \/ Unmount
  \/ \E p \in Inputs : Create(p)
  \/ \E i \in TargetIds, p \in Inputs : Update(i, p)
  \/ \E i \in TargetIds : Remove(i)
  \/ Reset
  \/ \E p \in Inputs : Save(p)
  \/ FormRemove
  \/ \E k \in 1..MaxCalls : Resolve(k, RecordOf(k))
  \/ \E k \in 1..MaxCalls, e \in RejectValues : Reject(k, e)

Spec == Init /\ [][Next]_vars

\* the request-executor answers some outstanding request
Settle ==
  \/ \E k \in 1..MaxCalls : Resolve(k, RecordOf(k))
  \/ \E k \in 1..MaxCalls, e \in RejectValues : Reject(k, e)

\* a component that stays mounted: every step but the teardown; React runs a
\* pending effect, and the executor answers every request
LiveNext ==
  \/ \E a \in HookTransports : InitApi(a)
  \/ ResetApi
  \/ RunEffect
  \/ Refetch
  \/ \E p \in PropsOf(kind) : Rerender(p[1], p[2], p[3])
  \/ \E p \in Inputs : Create(p)
  \/ \E i \in TargetIds, p \in Inputs : Update(i, p)
  \/ \E i \in TargetIds : Remove(i)
  \/ Reset
  \/ \E p \in Inputs : Save(p)
  \/ FormRemove
  \/ \E k \in 1..MaxCalls : Resolve(k, RecordOf(k))
  \/ \E k \in 1..MaxCalls, e \in RejectValues : Reject(k, e)

SpecLive == Init /\ [][LiveNext]_vars /\ WF_vars(RunEffect) /\ WF_vars(Settle)

\* the Client Registry alone
RegNext ==
  \/ \E a \in Transports : RegInitApi(a)
  \/ RegResetApi
  \/ RegGetApi
  \/ RegIsApiInitialized

SpecRegistry == Init /\ [][RegNext]_vars

\* the naming functions alone, applied to one word
NamingInit ==
  /\ HooksInit /\ kind = "mutation"
  /\ naming \in { [NoNaming EXCEPT !.input = w] : w \in Words }
  /\ sent = NoSent

NamingNext ==
  \/ ToPlural
  \/ ToSingular
  \/ Pluralize

SpecNaming == NamingInit /\ [][NamingNext]_vars

\* the Entity Client alone, one operation on one set of arguments
ClientInit ==
  /\ HooksInit /\ kind = "mutation"
  /\ naming = NoNaming
  /\ sent \in { [NoSent EXCEPT !.entityName = w, !.id = i, !.options = o, !.data = d] :
                 w \in ClientNames, i \in ClientIds, o \in ClientOptions, d \in Inputs }

ClientNext ==
  \/ ClientGetAll
  \/ ClientGetOne
  \/ ClientCreate
  \/ ClientUpdate
  \/ ClientRemove

SpecClient == ClientInit /\ [][ClientNext]_vars

\* ------------------------------------------------------------------ claims
\* what this step does to the log
Issued(k) == k = Len(calls) + 1 /\ Len(calls') = k
Settled(k) == k \in 1..Len(calls) /\ calls[k].resp = "pending" /\ calls'[k].resp # "pending"

\* the data cell of the mounted fetch hook
Exposed == IF kind = "list" THEN items ELSE item

\* the exposed data / error are those of the answer to call c
Reflects(c) ==
  IF c.resp = "ok"
  THEN Exposed = c.respValue /\ error = NoError
  ELSE error.tag = "Error" /\ error.message = c.respErr.message

\* the dependency key a fetch call was issued under is the current one
SameKey(c) ==
  /\ c.entityName = entityName
  /\ IF kind = "list" THEN JsonStringify(c.options) = JsonStringify(boundOptions)
     ELSE c.id = id

IsRefetchRequest(c) == IsFetch(c) /\ c.via = "refetch" /\ c.api = "ok"

\* C1: two refetch() calls in flight together: once both requests are
\* answered, in either order, the exposed data / error are those of the
\* later-issued request.
C1_LaterRefetchWins ==
  [][ \A i \in 1..Len(calls) : \A j \in 1..Len(calls) :
        ( /\ alive /\ kind \in {"list", "entity"}
          /\ i < j /\ j = Len(calls)
          /\ IsRefetchRequest(calls[i]) /\ IsRefetchRequest(calls[j])
          /\ Settled(i) \/ Settled(j)
          /\ calls'[i].resp # "pending" /\ calls'[j].resp # "pending" )
        => Reflects(calls[j])' ]_vars

\* C2: a request issued under props that have since changed (the effect of
\* the new props has run) is discarded when it is answered: the answer
\* writes none of items / item, error, loading.
C2_SupersededDiscarded ==
  [][ \A k \in 1..Len(calls) :
        ( /\ alive /\ ~effectPending /\ kind \in {"list", "entity"}
          /\ IsFetch(calls[k]) /\ Settled(k)
          /\ ~SameKey(calls[k]) )
        => UNCHANGED fetchVars ]_vars

\* C3: after teardown, the answer to an in-flight fetch request changes
\* none of items / item, loading, error, and fetchData does not throw.
C3_TornDownFetchDiscarded ==
  [][ \A k \in 1..Len(calls) :
        (~alive /\ IsFetch(calls[k]) /\ Settled(k))
        => UNCHANGED fetchVars /\ calls'[k].status = "fulfilled" ]_vars

\* a fetch request was answered after teardown: every request is answered,
\* yet loading is still true
C3_Witness ==
  /\ ~alive /\ kind \in {"list", "entity"} /\ loading
  /\ \E k \in 1..Len(calls) : IsFetch(calls[k]) /\ calls[k].resp \in {"ok", "fail"}
  /\ \A k \in 1..Len(calls) : calls[k].resp # "pending"

\* C4: after teardown, the answer to an in-flight create / update / remove
\* changes none of data, error, loading of the mutation hook.
C4_TornDownMutationDiscarded ==
  [][ \A k \in 1..Len(calls) :
        (~alive /\ IsMutation(calls[k]) /\ Settled(k))
        => UNCHANGED mutVars ]_vars

\* C5: useEntity with id undefined: no trigger (mount effect, effect after a
\* change to an undefined id, refetch) issues a request, each leaves
\* loading = false and item = null, and an instance that never had an id is
\* in that state throughout.
C5_NoIdNoRequest ==
  /\ [] ( ( /\ kind \in {"entity", "form"} /\ id = UNDEFINED
            /\ \A k \in 1..Len(calls) : IsFetch(calls[k]) => calls[k].id = UNDEFINED )
          => /\ item = NULL /\ loading = FALSE
             /\ \A k \in 1..Len(calls) : IsFetch(calls[k]) => calls[k].resp = "none" )
  /\ [][ \A k \in 1..Len(calls') :
           (Issued(k) /\ calls'[k].fn = "fetchEntity" /\ calls'[k].id = UNDEFINED)
           => /\ calls'[k].api = "none" /\ calls'[k].resp = "none"
              /\ item' = NULL /\ loading' = FALSE ]_vars

\* the id changed from a real id to undefined, the effect ran with the
\* registry initialised, and a refetch followed
C5_Witness ==
  /\ kind = "entity" /\ id = UNDEFINED /\ Len(calls) = 3
  /\ apiInstance # NoClient
  /\ calls[1].api = "ok"
  /\ calls[2].via = "effect" /\ calls[2].id = UNDEFINED
  /\ calls[3].via = "refetch" /\ calls[3].id = UNDEFINED

\* C6: a create / update / remove that fails (the executor rejects, or the
\* registry is not initialised) stores the normalized error with loading
\* false and rejects the caller's promise with the same error.
C6_BothChannels ==
  [][ \A k \in 1..Len(calls') :
        ( /\ IsMutation(calls'[k])
          /\ Issued(k) \/ Settled(k)
          /\ calls'[k].resp = "fail" \/ calls'[k].api = "threw" )
        => LET cause == IF calls'[k].api = "threw" THEN NotInitializedError
                        ELSE calls'[k].respErr IN
           /\ mutationError' = ErrorObj(cause.message)
           /\ saving' = FALSE
           /\ calls'[k].status = "rejected"
           /\ calls'[k].thrown = mutationError' ]_vars

\* a mutation rejected with a value that is not an Error
C6_Witness ==
  \E k \in 1..Len(calls) :
    /\ IsMutation(calls[k]) /\ calls[k].resp = "fail"
    /\ calls[k].respErr.tag = "value" /\ calls[k].status = "rejected"

\* C7: useEntityForm.remove() without an id rejects with the InvalidOperation
\* error and reaches neither the mutation hook nor the Entity Client; with an
\* id it is one mutate.remove(id).
C7_FormRemove ==
  [][ \A k \in 1..Len(calls') :
        (Issued(k) /\ calls'[k].via = "formRemove")
        => IF Falsy(id)
           THEN /\ calls'[k].fn = "formRemove" /\ calls'[k].api = "none"
                /\ calls'[k].resp = "none"
                /\ calls'[k].status = "rejected"
                /\ calls'[k].thrown = InvalidOperationError
                /\ UNCHANGED mutVars
           ELSE calls'[k].fn = "remove" /\ calls'[k].id = id ]_vars

\* remove() was refused on a form without id while the registry was ready
C7_Witness ==
  /\ kind = "form" /\ id = UNDEFINED /\ apiInstance # NoClient
  /\ \E k \in 1..Len(calls) :
       calls[k].fn = "formRemove" /\ calls[k].thrown = InvalidOperationError

\* C8: useEntityForm.save(payload) is one mutation: update(id, payload) when
\* an id is bound, create(payload) when none is; its promise returns the
\* record that mutation returned.
C8_SaveDelegates ==
  /\ [] ( \A k \in 1..Len(calls) :
            (calls[k].via = "save" /\ calls[k].resp = "ok")
            => calls[k].status = "fulfilled" /\ calls[k].ret = calls[k].respValue )
  /\ [][ \A k \in 1..Len(calls') :
           (Issued(k) /\ calls'[k].via = "save")
           => /\ calls'[k].arg \in Inputs
              /\ IF isEdit
                 THEN calls'[k].fn = "update" /\ calls'[k].id = id
                 ELSE calls'[k].fn = "create" ]_vars

\* a save on a form with an id went out as an update and returned its record
C8_Witness ==
  \E k \in 1..Len(calls) :
    /\ calls[k].via = "save" /\ calls[k].fn = "update" /\ calls[k].id = "a"
    /\ calls[k].resp = "ok" /\ calls[k].ret = RecordOf(k)

\* C9: the registry after any sequence of init / reset / get / isInitialized:
\* get returns the client of the latest init when no reset followed it and
\* throws NotInitialized otherwise; init never fails; isInitialized is true
\* exactly when get succeeds.
LastWrite(k) ==
  LET W == { m \in 1..(k - 1) : regOps[m].op \in {"init", "reset"} } IN
  IF W = {} THEN 0 ELSE CHOOSE m \in W : \A x \in W : x <= m

C9_RegistryLastWriteWins ==
  \A k \in 1..Len(regOps) :
    LET w == LastWrite(k)
        live == w # 0 /\ regOps[w].op = "init"
    IN
    /\ regOps[k].op = "get" =>
         IF live
         THEN regOps[k].res.ok /\ regOps[k].res.client.authApi = regOps[w].authApi
         ELSE ~regOps[k].res.ok /\ regOps[k].res.err = NotInitializedError
    /\ regOps[k].op = "isInitialized" => (regOps[k].res.ok <=> live)
    /\ regOps[k].op = "init" =>
         regOps[k].res.ok /\ regOps[k].res.client.authApi = regOps[k].authApi

\* init, re-init with another executor, then get
C9_Witness ==
  /\ Len(regOps) = 3
  /\ regOps[1].op = "init" /\ regOps[2].op = "init"
  /\ regOps[1].authApi # regOps[2].authApi
  /\ regOps[3].op = "get" /\ regOps[3].res.ok

\* C10: a fetch triggered while the registry is not initialised does not
\* absorb NotInitialized: fetchData's promise rejects with it.
C10_NotInitializedSurfaces ==
  \A k \in 1..Len(calls) :
    (IsFetch(calls[k]) /\ calls[k].api = "threw")
    => calls[k].status = "rejected" /\ calls[k].thrown = NotInitializedError

\* C11: mutation operations are never coalesced or dropped: an operation
\* called while the registry holds a client issues its own request, whatever
\* else is in flight, and leaves the requests in flight alone; each caller's
\* promise settles with the answer to its own request.
C11_NoCoalescing ==
  /\ [](\A k \in 1..Len(calls) :
          IsMutation(calls[k]) =>
            /\ calls[k].resp = "ok" =>
                  /\ calls[k].status = "fulfilled"
                  /\ calls[k].respValue = RecordOf(k)
                  /\ calls[k].ret = IF calls[k].fn = "remove" THEN UNDEFINED ELSE RecordOf(k)
            /\ calls[k].resp = "fail" =>
                  /\ calls[k].status = "rejected"
                  /\ calls[k].thrown = Normalize(calls[k].respErr)
            /\ calls[k].resp = "pending" => calls[k].status = "pending")
  /\ [][ \A k \in 1..MaxCalls :
          (Issued(k) /\ IsMutation(calls'[k]) /\ apiInstance # NoClient)
          => /\ calls'[k].resp = "pending" /\ calls'[k].attempts = 1
             /\ \A j \in 1..(k - 1) :
                  /\ calls'[j].resp = calls[j].resp
                  /\ calls'[j].status = calls[j].status ]_vars

\* create, then update before the create resolved: both requests in flight
C11_Witness ==
  /\ Len(calls) >= 2
  /\ calls[1].fn = "create" /\ calls[1].resp = "pending"
  /\ calls[2].fn = "update" /\ calls[2].resp = "pending"

\* C12: a mutation operation that ran with no other mutation operation issued
\* or in flight meanwhile, once its request succeeds, leaves loading = false,
\* error = none and data = the returned record (none for remove); an operation
\* that starts a request sets loading = true and clears the error.
C12_MutationAlone ==
  [][ /\ \A k \in 1..Len(calls) :
          (Settled(k) /\ IsMutation(calls[k]) /\ calls[k].alone /\ calls'[k].resp = "ok")
          => /\ saving' = FALSE
             /\ mutationError' = NoError
             /\ data' = IF calls[k].fn = "remove" THEN NULL ELSE calls'[k].respValue
      /\ \A k \in 1..MaxCalls :
          (Issued(k) /\ IsMutation(calls'[k]) /\ calls'[k].api = "ok")
          => saving' = TRUE /\ mutationError' = NoError ]_vars

\* a create failed, a second create returned a record, then a remove
\* succeeded: the error and the record are gone
C12_Witness ==
  /\ Len(calls) = 3
  /\ calls[1].fn = "create" /\ calls[1].resp = "fail"
  /\ calls[2].fn = "create" /\ calls[2].resp = "ok"
  /\ calls[3].fn = "remove" /\ calls[3].resp = "ok"
  /\ data = NULL /\ ~saving /\ mutationError = NoError

\* C13: reset() in any state sets data = none, error = none, loading = false
\* and issues no request.
C13_Reset ==
  [][ \A k \in 1..MaxCalls :
        (Issued(k) /\ calls'[k].fn = "reset")
        => /\ data' = NULL /\ mutationError' = NoError /\ saving' = FALSE
           /\ calls'[k].resp = "none" /\ calls'[k].attempts = 0
           /\ \A j \in 1..(k - 1) : calls'[j].resp = calls[j].resp ]_vars

\* reset() while an update is in flight, after a create returned a record
C13_Witness ==
  /\ Len(calls) = 3
  /\ calls[1].fn = "create" /\ calls[1].resp = "ok"
  /\ calls[2].fn = "update" /\ calls[2].resp = "pending"
  /\ calls[3].fn = "reset"
  /\ data = NULL /\ ~saving /\ mutationError = NoError

\* C14: the form exposes isEdit exactly when a (non-empty) id is bound,
\* loading exactly when the entity is loading or a mutation is in flight, and
\* as error the load error when there is one, the mutation error otherwise.
C14_FormDerived ==
  kind = "form" =>
    /\ isEdit <=> (id # UNDEFINED /\ id # "")
    /\ formLoading <=> ~(loading = FALSE /\ saving = FALSE)
    /\ error # NoError => formError = error
    /\ error = NoError => formError = mutationError

\* an edit form whose load failed and whose save failed with another error
C14_Witness ==
  /\ kind = "form" /\ isEdit
  /\ error # NoError /\ mutationError # NoError /\ error # mutationError
  /\ formError = error /\ ~loading

\* the fetch hook has a key it can fetch: a list always, an entity with an id
UsableKey == kind = "list" \/ ~Falsy(id)

\* this step issues fetch call k as the claim describes a trigger: loading
\* becomes true, the error is cleared, and one request goes out for the
\* entity name, id and query options of the latest render, the requests
\* already in flight left alone
Triggered(k) ==
  /\ loading' = TRUE /\ error' = NoError
  /\ calls'[k].resp = "pending" /\ calls'[k].attempts = 1
  /\ calls'[k].entityName = entityName
  /\ IF kind = "list"
     THEN DefinedEntries(calls'[k].options.entries) = DefinedEntries(options.entries)
     ELSE calls'[k].id = id
  /\ \A j \in 1..(k - 1) : calls'[j].resp = calls[j].resp

\* a render that changes the entity name, the id or the query options leaves
\* the effect pending, and the pending effect calls fetchData
RenderTriggers ==
  /\ (kind \in FetchKinds /\ alive /\
       (entityName' # entityName \/ id' # id \/
        DefinedEntries(options'.entries) # DefinedEntries(options.entries)))
      => effectPending'
  /\ (effectPending /\ ~effectPending')
      => \E k \in 1..MaxCalls :
           Issued(k) /\ IsFetch(calls'[k]) /\ calls'[k].via = "effect"

\* C15: every trigger of a fetch hook that has a usable key sets loading =
\* true, clears the error and issues exactly one request, for the entity
\* name, id and query options of the latest render.  The triggers are the
\* effect, pending after the first render and after every render that changed
\* the name, the id or the query options, and refetch().
C15_TriggerLoads ==
  /\ [](kind \in FetchKinds => effectPending \/ Len(calls) >= 1)
  /\ [][ /\ \A k \in 1..MaxCalls :
             (Issued(k) /\ IsFetch(calls'[k]) /\ UsableKey) => Triggered(k)
         /\ RenderTriggers ]_vars

\* the same for the triggers that find a client in the registry
TriggerLoadsWithClient ==
  [][ \A k \in 1..MaxCalls :
        (Issued(k) /\ IsFetch(calls'[k]) /\ UsableKey /\ apiInstance # NoClient)
        => Triggered(k) ]_vars

\* the first request failed; a render under another entity name: the effect
\* has issued one request under the new name, loading again, error cleared
NameChangeTriggered ==
  /\ kind \in {"list", "entity"} /\ alive /\ Len(calls) = 2
  /\ calls[1].resp = "fail" /\ calls[1].entityName # entityName
  /\ calls[2].resp = "pending" /\ calls[2].via = "effect"
  /\ calls[2].entityName = entityName
  /\ loading /\ error = NoError

\* C16: a mounted fetch hook whose request was the only one outstanding while
\* it was pending: when the request succeeds the hook is Ready (loading =
\* false, error = none, items / item = the returned data); when it fails the
\* hook is Failed (loading = false, error = an Error object with the message
\* of the rejected value, be that value an Error or not).
C16_SettleAlone ==
  [][ \A k \in 1..Len(calls) :
        (Settled(k) /\ IsFetch(calls[k]) /\ calls[k].alone /\ alive /\ isMounted)
        => /\ loading' = FALSE
           /\ calls'[k].resp = "ok" =>
                (error' = NoError /\ Exposed' = calls'[k].respValue)
           /\ calls'[k].resp = "fail" =>
                (error'.tag = "Error" /\ error'.message = calls'[k].respErr.message) ]_vars

\* the only request of a mounted list was rejected with a value that is not
\* an Error
C16_Witness ==
  /\ kind = "list" /\ alive /\ isMounted /\ Len(calls) = 1
  /\ calls[1].resp = "fail" /\ calls[1].respErr.tag = "value"
  /\ ~loading /\ error = ErrorObj(calls[1].respErr.message)

\* C17: no retries.  Every call that reaches the Entity Client makes exactly
\* one executor call, before and after the executor's answer; the step in
\* which a request fails issues nothing, leaves every other call as it was and
\* hands the rejected value on: an Error unchanged, another value with its
\* message.
C17_NoRetry ==
  /\ [](\A k \in 1..Len(calls) :
          calls[k].attempts = IF calls[k].api = "ok" THEN 1 ELSE 0)
  /\ [][ \A k \in 1..Len(calls) :
          (Settled(k) /\ calls'[k].resp = "fail")
          => /\ Len(calls') = Len(calls)
             /\ \A j \in 1..Len(calls) : j # k => calls'[j] = calls[j]
             /\ calls'[k].respErr \in RejectValues
             /\ IsMutation(calls[k]) =>
                  /\ calls'[k].thrown.message = calls'[k].respErr.message
                  /\ calls'[k].respErr.tag = "Error" =>
                       (calls'[k].thrown = calls'[k].respErr
                        /\ mutationError' = calls'[k].respErr)
             /\ (IsFetch(calls[k]) /\ isMounted /\ calls'[k].respErr.tag = "Error")
                  => error' = calls'[k].respErr ]_vars

\* the only operation, an update, failed: one executor call, nothing pending
C17_Witness ==
  /\ kind = "mutation" /\ Len(calls) = 1
  /\ calls[1].fn = "update" /\ calls[1].resp = "fail" /\ calls[1].attempts = 1
  /\ calls[1].thrown = calls[1].respErr

\* the only executor call of the operation held in `sent`
TheRequest == sent.requests[1]

\* p is a prefix of w
StartsWith(w, p) == Len(p) <= Len(w) /\ SubSeq(w, 1, Len(p)) = p

\* C18: the REST mapping.  With {plural} the plural of the entity name:
\* getAll -> GET /api/{plural}/ followed by nothing or by "?" and a query;
\* getOne -> GET /api/{plural}/{id}; create -> POST /api/{plural}/ with the
\* JSON of the payload as body; update -> PATCH /api/{plural}/{id} with the
\* JSON of the payload as body; remove -> DELETE /api/{plural}/{id} without
\* body.  Each operation is a single executor call.
C18_RestMapping ==
  sent.op # "none" =>
    LET collection == <<"/", "a", "p", "i", "/">> \o toPlural(sent.entityName) \o <<"/">>
        member == collection \o sent.id
        r == TheRequest
    IN
    /\ Len(sent.requests) = 1
    /\ sent.op = "getAll" =>
         /\ r.method = "GET" /\ ~r.body.present
         /\ StartsWith(r.endpoint, collection)
         /\ \/ r.endpoint = collection
            \/ /\ Len(r.endpoint) > Len(collection) + 1
               /\ r.endpoint[Len(collection) + 1] = "?"
    /\ sent.op = "getOne" =>
         r.method = "GET" /\ ~r.body.present /\ r.endpoint = member
    /\ sent.op = "create" =>
         /\ r.method = "POST" /\ r.endpoint = collection
         /\ r.body.present /\ r.body.json = sent.data
    /\ sent.op = "update" =>
         /\ r.method = "PATCH" /\ r.endpoint = member
         /\ r.body.present /\ r.body.json = sent.data
    /\ sent.op = "remove" =>
         r.method = "DELETE" /\ ~r.body.present /\ r.endpoint = member

\* update("ty", "42", p1): PATCH /api/ties/42
C18_Witness ==
  /\ sent.op = "update" /\ sent.entityName = <<"t", "y">> /\ sent.id = <<"4", "2">>
  /\ TheRequest.endpoint = <<"/", "a", "p", "i", "/", "t", "i", "e", "s", "/", "4", "2">>
  /\ TheRequest.method = "PATCH"

\* C19: the Entity Client's pluralize and toPlural return the same string for
\* every word, so an entity name and its plural give the same path.
C19_SamePlural ==
  naming.fn = "pluralize" =>
    /\ naming.output = toPlural(naming.input)
    /\ \A i \in ClientIds :
         getOne(naming.input, i) = getOne(toPlural(naming.input), i)

\* pluralize("tY") = "ties"
C19_Witness ==
  /\ naming.fn = "pluralize" /\ naming.input = <<"t", "Y">>
  /\ naming.output = <<"t", "i", "e", "s">>

\* C20: toPlural is idempotent: toPlural(toPlural(s)) = toPlural(s) for every
\* string, the empty string, one-character and mixed-case strings included.
C20_Idempotent ==
  naming.fn = "toPlural" =>
    /\ naming.output = toPlural(naming.input)
    /\ toPlural(naming.output) = naming.output

\* toPlural("X") = "Xes", a fixed point
C20_Witness ==
  /\ naming.fn = "toPlural" /\ naming.input = <<"X">>
  /\ naming.output = <<"X", "e", "s">>

\* C21: round trip: for every non-empty lowercase word w that does not end
\* in "s", toSingular(toPlural(w)) = w.
C21_RoundTrip ==
  (/\ naming.fn = "toSingular"
   /\ naming.input # << >>
   /\ toLowerCase(naming.input) = naming.input
   /\ ~endsWith(naming.input, <<"s">>))
  => naming.output = naming.input

\* reading a query string back: the pieces of w between separators sep
RECURSIVE SplitOn(_, _)
SplitOn(w, sep) ==
  IF \A n \in 1..Len(w) : w[n] # sep THEN <<w>>
  ELSE LET at == CHOOSE n \in 1..Len(w) : w[n] = sep /\ \A m \in 1..(n - 1) : w[m] # sep
       IN <<slice(w, 0, at - 1)>> \o SplitOn(sliceFrom(w, at), sep)

\* form-urldecoding of the characters the model uses
RECURSIVE Decode(_)
Decode(w) ==
  IF w = << >> THEN << >>
  ELSE IF Head(w) = "+" THEN <<" ">> \o Decode(Tail(w))
  ELSE IF Head(w) = "%" /\ Len(w) >= 3
  THEN (IF slice(w, 1, 3) = <<"2", "6">> THEN <<"&">>
        ELSE IF slice(w, 1, 3) = <<"3", "D">> THEN <<"=">> ELSE <<"?">>)
       \o Decode(sliceFrom(w, 3))
  ELSE <<Head(w)>> \o Decode(Tail(w))

\* the key/value pairs a query string carries, in order
ParseQuery(q) ==
  LET parts == SplitOn(q, "&") IN
  [n \in 1..Len(parts) |->
     LET kv == SplitOn(parts[n], "=") IN
     [k |-> Decode(kv[1]), v |-> IF Len(kv) = 2 THEN Decode(kv[2]) ELSE <<"?">>]]

HasValue(e) == e.v.t # "undefined" /\ e.v.t # "null"

\* C22: getAll sends as query parameters exactly the option entries whose
\* value is neither undefined nor null, in the options' key order, each as
\* key=String(value) (form-urlencoded); when the options are absent or hold
\* no such entry the path is /api/{plural}/ with no "?" and no "key=".
C22_QueryParams ==
  sent.op = "getAll" =>
    LET collection == <<"/", "a", "p", "i", "/">> \o toPlural(sent.entityName) \o <<"/">>
        kept == SelectSeq(sent.options.entries, HasValue)
        r == TheRequest.endpoint
        rest == sliceFrom(r, Len(collection))
    IN
    /\ StartsWith(r, collection)
    /\ IF kept = << >>
       THEN r = collection
       ELSE /\ Head(rest) = "?"
            /\ LET pairs == ParseQuery(Tail(rest)) IN
               /\ Len(pairs) = Len(kept)
               /\ \A n \in 1..Len(kept) :
                    pairs[n].k = kept[n].k /\ pairs[n].v = String(kept[n].v)

\* getAll("ty", {status: undefined, limit: 10}) asks for /api/ties/?limit=10
C22_Witness ==
  /\ sent.op = "getAll" /\ sent.entityName = <<"t", "y">>
  /\ sent.options = Obj(<< [k |-> STATUS, v |-> Undef], [k |-> LIMIT, v |-> Num(10)] >>)
  /\ TheRequest.endpoint =
       <<"/", "a", "p", "i", "/", "t", "i", "e", "s", "/",
         "?", "l", "i", "m", "i", "t", "=", "1", "0">>

\* C23: a single-entity hook whose last load failed and whose id then becomes
\* absent settles in Ready: the effect that finds no id leaves error = none,
\* item = null and loading = false.
C23_NoIdClearsError ==
  [][ \A k \in 1..MaxCalls :
        (Issued(k) /\ calls'[k].fn = "fetchEntity" /\ calls'[k].via = "effect"
         /\ Falsy(id) /\ error # NoError)
        => error' = NoError /\ item' = NULL /\ loading' = FALSE ]_vars

\* the fetch calls that handed a request to the executor
FetchRequests == { k \in 1..Len(calls) : IsFetch(calls[k]) /\ calls[k].api = "ok" }
LastFetchRequest == CHOOSE k \in FetchRequests : \A j \in FetchRequests : j <= k

\* C24: in every state of a mounted fetch hook, loading is true whenever the
\* most recently issued request is still unanswered; the answer to an earlier
\* request does not end loading while a later one is outstanding.  Stated for
\* the states in which every trigger so far found the client.
C24_LoadingTracksLatest ==
  (kind \in FetchKinds /\ alive /\ isMounted /\ FetchRequests # {}
   /\ calls[LastFetchRequest].resp = "pending"
   /\ \A k \in 1..Len(calls) : calls[k].api = "ok")
  => loading = TRUE

\* reset() has not been called since the last mutation operation started
NoResetSince ==
  \A r \in 1..Len(calls) :
    calls[r].fn = "reset" => \E k \in (r + 1)..Len(calls) : IsMutation(calls[k])

\* C25: in every state of a mutation hook on which reset() has not been
\* called since the last operation started, loading is true exactly when a
\* create / update / remove of the hook is still outstanding; the settling of
\* one operation does not end loading while another is in flight.  Stated
\* for the states in which every operation so far found the client.
C25_LoadingTracksOutstanding ==
  (kind \in MutKinds /\ NoResetSince
   /\ \A k \in 1..Len(calls) : IsMutation(calls[k]) => calls[k].api = "ok")
  => (saving <=> \E k \in 1..Len(calls) : IsMutation(calls[k]) /\ calls[k].resp = "pending")

\* call k was issued before a reset() after which no operation was started
ResetAfter(k) ==
  \E r \in (k + 1)..Len(calls) :
    /\ calls[r].fn = "reset"
    /\ \A j \in (r + 1)..Len(calls) : ~IsMutation(calls[j])

\* C26: after reset() with an earlier operation still in flight, data and
\* error stay none and loading stays false until an operation issued after
\* the reset changes them: the late answer to the earlier operation changes
\* none of the three.
C26_ResetHolds ==
  [][ \A k \in 1..Len(calls) :
        (Settled(k) /\ IsMutation(calls[k]) /\ ResetAfter(k))
        => data' = NULL /\ mutationError' = NoError /\ saving' = FALSE ]_vars

\* C27: a hook that stays mounted, once the triggers have ceased and the
\* executor has answered every request, reaches and keeps loading = false
\* (for the form: neither loading the entity nor saving).
C27_EventuallySettled == <>[](loading = FALSE /\ saving = FALSE)

\* a mounted form after its last trigger: every call reached the executor
\* and was answered, nothing is loading or saving
C27_Witness ==
  /\ kind = "form" /\ alive /\ Len(calls) = MaxCalls
  /\ \A k \in 1..Len(calls) : calls[k].api = "ok" /\ calls[k].resp \in {"ok", "fail"}
  /\ loading = FALSE /\ saving = FALSE

====
